---- MODULE Spec2Model ----
(***************************************************************************)
(* The client-side API layer of the ExoAI dashboard (lib/api.ts) with its   *)
(* mock-data fallback (lib/mocks.ts), the health query hook that consumes   *)
(* it and the topbar badge that shows it, the classify page with its form   *)
(* and the record it leaves in local storage, the visualize and             *)
(* explanations pages that read that record, the dataset table, the CSV     *)
(* upload, and the CSV export of lib/utils.ts.                              *)
(*                                                                          *)
(* JavaScript values are represented as follows.                            *)
(*   object  -> record (its own keys are the record's DOMAIN)               *)
(*   array   -> sequence; an array that is a whole response body is the     *)
(*              record [items |-> sequence], so that any two bodies can be  *)
(*              compared                                                    *)
(*   number  -> [kind |-> "number", n |-> Int]; NaN, undefined, null and a  *)
(*              non-empty string are other kinds of value a caller that     *)
(*              is not type-checked can put in a number's place.            *)
(*              Units: transit_depth_ppm in ppm,                            *)
(*              orbital_period_days in days, planetary_radius_re in tenths  *)
(*              of an Earth radius (0.5 is 5), probabilities in hundredths  *)
(*              (0.75 is 75), Math.random() in thousandths (0..999).        *)
(*   Record<string, number> -> sequence of <<key, value>> pairs in the      *)
(*              order Object.keys enumerates them (insertion order for the  *)
(*              feature names), keys distinct                               *)
(***************************************************************************)
EXTENDS Integers, Sequences, FiniteSets, TLC

VARIABLES
  calls,        \* the invocations of apiClient operations, by slot
  rnd,          \* the seed of the Math.random stream lib/mocks.ts loads with
  healthQuery,  \* the useQuery state behind useApiHealth
  mockInput,    \* a features map handed to mockPredictWithFeatures directly
  mockOutput,   \* what it returned: << >> before the call, <<result>> after
  env,          \* process.env.NEXT_PUBLIC_BACKEND_URL: << >> when unset
  route,        \* the page the browser shows
  page,         \* the state of ClassifyPage
  form,         \* the state of its FeaturesForm, and its button as rendered
  submits,      \* the predict invocations of ClassifyPage's handleSubmit
  localStorage, \* the text stored under 'lastClassification': << >> if none
  reader,       \* what the page that reads the key holds after mounting
  canvas,       \* the state of the visualize page's PlanetCanvas
  csvInput,     \* the rows handed to downloadCSV
  csvOutput,    \* the lines of the file it produced: << >> before the call
  table,        \* the state of DatasetTable, its predict invocation included
  upload        \* the state of CSVUpload, its predictCSV invocation included

clientVars == <<calls, rnd, healthQuery, env>>
mockVars == <<mockInput, mockOutput>>
pageVars == <<route, page, form, submits, localStorage, reader, canvas>>
csvVars == <<csvInput, csvOutput>>
widgetVars == <<table, upload>>
vars ==
  <<calls, rnd, healthQuery, mockInput, mockOutput, env,
    route, page, form, submits, localStorage, reader, canvas,
    csvInput, csvOutput, table, upload>>

(***************************************************************************)
(* Bounds of the model.                                                     *)
(***************************************************************************)
\* Number of invocations of the client that can be outstanding together.
MaxCalls == 1
\* Milliseconds of wall-clock time that pass in one Tick step.
TickMs == 5000
\* Number of submissions of the classify form that can be in flight together.
MaxSubmits == 2
\* Rows of a list handed to downloadCSV.
MaxRows == 2

(***************************************************************************)
(* JavaScript numbers.                                                      *)
(***************************************************************************)
Num(n) == [kind |-> "number", n |-> n]
NaN == [kind |-> "NaN", n |-> 0]
Undefined == [kind |-> "undefined", n |-> 0]
Null == [kind |-> "null", n |-> 0]
\* A non-empty string, such as "365" or "abc".
Str == [kind |-> "string", n |-> 0]

\* An array that is a response body.
Items(seq) == [items |-> seq]

\* `x || 0` on a number | undefined: undefined, NaN and 0 are falsy.
OrZero(v) == IF v.kind = "number" THEN v.n ELSE 0

\* `x || 0` is x itself when x is truthy: of the values here, a number other
\* than 0 and a non-empty string.
Truthy(v) == (v.kind = "number" /\ v.n # 0) \/ v.kind = "string"

\* (x || 0).toFixed(d): a TypeError unless the operand is a number.
ToFixedThrows(v) == Truthy(v) /\ v.kind # "number"

\* features[key] on a Record<string, number>.
Get(features, key) ==
  IF \E i \in 1..Len(features) : features[i][1] = key
    THEN features[CHOOSE i \in 1..Len(features) : features[i][1] = key][2]
    ELSE Undefined

\* Object.keys(features): own keys in insertion order.
ObjectKeys(features) == [i \in 1..Len(features) |-> features[i][1]]

\* Object.entries(features): [key, value] pairs in insertion order.
ObjectEntries(features) ==
  [i \in 1..Len(features) |-> <<features[i][1], features[i][2]>>]

(***************************************************************************)
(* Math.random(): a seeded stream; RandomAt(seed, k) is its k-th draw, in   *)
(* thousandths.  The seed is chosen freely where the stream is started.     *)
(***************************************************************************)
RandomSeeds == {0, 500}
RandomAt(seed, k) == (seed + k * 619) % 1000

(***************************************************************************)
(* lib/mocks.ts: the canned fixtures.  Metrics are in hundredths.           *)
(***************************************************************************)
M(a, p, r, f) == [accuracy |-> a, precision |-> p, recall |-> r, f1 |-> f]

mockHealth ==
  [status |-> "ok", last_ingest_iso |-> "module load time minus 24 hours"]

mockModels == Items(
  << [id |-> "stacking", name |-> "Stacking Ensemble", metrics |-> M(87, 85, 86, 85)],
     [id |-> "random_forest", name |-> "Random Forest", metrics |-> M(85, 83, 84, 83)],
     [id |-> "extra_trees", name |-> "Extra Trees", metrics |-> M(84, 82, 83, 82)],
     [id |-> "random_subspace", name |-> "Random Subspace", metrics |-> M(83, 81, 82, 81)],
     [id |-> "adaboost", name |-> "AdaBoost", metrics |-> M(82, 80, 81, 80)] >>)

mockMetrics ==
  [overall |-> M(85, 83, 84, 83),
   perModel |-> [stacking |-> M(87, 85, 86, 85),
                 random_forest |-> M(85, 83, 84, 83),
                 extra_trees |-> M(84, 82, 83, 82),
                 random_subspace |-> M(83, 81, 82, 81),
                 adaboost |-> M(82, 80, 81, 80)],
   confusionMatrix |-> << <<1200, 85, 45>>, <<78, 950, 32>>, <<42, 28, 800>> >>]

mockFeatures ==
  [importances |->
    << [name |-> "orbital_period_days", importance |-> 24],
       [name |-> "transit_depth_ppm", importance |-> 22],
       [name |-> "planetary_radius_re", importance |-> 18],
       [name |-> "transit_duration_hours", importance |-> 16],
       [name |-> "teff_k", importance |-> 12],
       [name |-> "rstar_rs", importance |-> 8],
       [name |-> "logg", importance |-> 6],
       [name |-> "feh", importance |-> 4] >>]

(***************************************************************************)
(* lib/mocks.ts: the generated dataset.  The module draws from Math.random  *)
(* while it loads: row i takes draws 8*i .. 8*i+7 of the stream, in the     *)
(* order of the fields of the object literal.  `seed` is the seed of that   *)
(* stream; the variable rnd holds the one the module loaded with.           *)
(***************************************************************************)
\* Array.from({ length: 100 }, ...)
mockDatasetLength == 100
\* total: 100
mockDatasetTotal == 100

labels == <<"confirmed", "candidate", "false_positive">>
missions == <<"kepler", "k2", "tess">>

\* Mutant of At: a 1-based index into a 0-based array.
AtOneBased(arr, i) == arr[((i + 1) % Len(arr)) + 1]

\* arr[i] for a 0-based index i into a JavaScript array.
At(arr, i) == arr[i + 1]

generateMockDatasetRow(id, mission, seed) ==
  LET r(j) == RandomAt(seed, 8 * id + j)
  IN [id |-> <<"mock-", id>>,
      mission |-> mission,
      orbital_period_days |-> (r(0) * 500) \div 1000 + 1,
      transit_duration_hours |-> (r(1) * 20) \div 1000 + 1,
      planetary_radius_re |-> (r(2) * 100) \div 1000 + 1,
      transit_depth_ppm |-> (r(3) * 5000) \div 1000 + 100,
      teff_k |-> (r(4) * 4000) \div 1000 + 3000,
      rstar_rs |-> (r(5) * 20) \div 1000 + 5,
      logg |-> (r(6) * 20) \div 1000 + 40,
      feh |-> (r(7) * 100) \div 1000 - 50,
      label |-> At(labels, id % 3)]

mockDatasetLoad(seed) ==
  [rows |-> [k \in 1..mockDatasetLength |->
               LET i == k - 1
                   mission == At(missions, i % 3)
               IN generateMockDatasetRow(i, mission, seed)],
   total |-> mockDatasetTotal]

\* Array.from({ length: 10 }, ...) over mockFeatures.importances
mockShapSampleLoad(seed) == Items(
  [k \in 1..10 |->
     LET i == k - 1
     IN [id |-> <<"shap-", i>>,
         shap |-> [j \in 1..Len(mockFeatures.importances) |->
                     LET d == 8 * mockDatasetLength + 16 * i + 2 * (j - 1)
                     IN [feature |-> mockFeatures.importances[j].name,
                         value |-> Num(RandomAt(seed, d)),
                         contribution |-> ((RandomAt(seed, d + 1) - 500) * 3) \div 10]]]])

\* The two generated exports, for each seed the module can load with.
Loaded ==
  [seed \in RandomSeeds |->
     [mockDataset |-> mockDatasetLoad(seed), mockShapSample |-> mockShapSampleLoad(seed)]]

mockDataset == Loaded[rnd].mockDataset
mockShapSample == Loaded[rnd].mockShapSample

(***************************************************************************)
(* lib/mocks.ts: mockPredictWithFeatures, the substitute classifier.        *)
(* `seed` starts the Math.random stream the SHAP contributions are drawn    *)
(* from, one draw per entry.                                                *)
(***************************************************************************)
Probabilities(c, k, f) == [confirmed |-> c, candidate |-> k, false_positive |-> f]

\* Mutant of Verdict: the lower period bound is inclusive.
VerdictPeriodInclusive(depth, radius, period) ==
  IF depth > 1000 /\ radius > 5 /\ period >= 10 /\ period < 1000
    THEN [prediction |-> "confirmed", probabilities |-> Probabilities(75, 20, 5)]
  ELSE IF depth > 500 /\ radius > 3
    THEN [prediction |-> "candidate", probabilities |-> Probabilities(30, 60, 10)]
  ELSE [prediction |-> "false_positive", probabilities |-> Probabilities(10, 20, 70)]

\* Mutant of Verdict: the candidate radius bound is inclusive.
VerdictRadiusInclusive(depth, radius, period) ==
  IF depth > 1000 /\ radius > 5 /\ period > 10 /\ period < 1000
    THEN [prediction |-> "confirmed", probabilities |-> Probabilities(75, 20, 5)]
  ELSE IF depth > 500 /\ radius >= 3
    THEN [prediction |-> "candidate", probabilities |-> Probabilities(30, 60, 10)]
  ELSE [prediction |-> "false_positive", probabilities |-> Probabilities(10, 20, 70)]

\* Mutant of Verdict: the candidate branch joins its tests with || .
VerdictCandidateEither(depth, radius, period) ==
  IF depth > 1000 /\ radius > 5 /\ period > 10 /\ period < 1000
    THEN [prediction |-> "confirmed", probabilities |-> Probabilities(75, 20, 5)]
  ELSE IF depth > 500 \/ radius > 3
    THEN [prediction |-> "candidate", probabilities |-> Probabilities(30, 60, 10)]
  ELSE [prediction |-> "false_positive", probabilities |-> Probabilities(10, 20, 70)]

\* Mutant of Verdict: the candidate branch has the probabilities of confirmed
\* and candidate exchanged.
VerdictCandidateSwapped(depth, radius, period) ==
  IF depth > 1000 /\ radius > 5 /\ period > 10 /\ period < 1000
    THEN [prediction |-> "confirmed", probabilities |-> Probabilities(75, 20, 5)]
  ELSE IF depth > 500 /\ radius > 3
    THEN [prediction |-> "candidate", probabilities |-> Probabilities(60, 30, 10)]
  ELSE [prediction |-> "false_positive", probabilities |-> Probabilities(10, 20, 70)]

\* The if / else if / else chain over the three thresholded features.
Verdict(depth, radius, period) ==
  IF depth > 1000 /\ radius > 5 /\ period > 10 /\ period < 1000
    THEN [prediction |-> "confirmed", probabilities |-> Probabilities(75, 20, 5)]
  ELSE IF depth > 500 /\ radius > 3
    THEN [prediction |-> "candidate", probabilities |-> Probabilities(30, 60, 10)]
  ELSE [prediction |-> "false_positive", probabilities |-> Probabilities(10, 20, 70)]

\* Mutant of ShapOf: one entry per feature the heuristic reads, not per key.
ShapOfReadFeatures(features, seed) ==
  LET read == <<"orbital_period_days", "transit_depth_ppm", "planetary_radius_re">>
  IN [i \in 1..Len(read) |->
        [feature |-> read[i],
         value |-> Get(features, read[i]),
         contribution |-> ((RandomAt(seed, i - 1) - 500) * 2) \div 10]]

\* Object.entries(features).map(([feature, value]) => ({ ... }))
ShapOf(features, seed) ==
  LET entries == ObjectEntries(features)
  IN [i \in 1..Len(entries) |->
        [feature |-> entries[i][1],
         value |-> entries[i][2],
         contribution |-> ((RandomAt(seed, i - 1) - 500) * 2) \div 10]]

mockPredictWithFeatures(features, seed) ==
  LET period == OrZero(Get(features, "orbital_period_days"))
      depth == OrZero(Get(features, "transit_depth_ppm"))
      radius == OrZero(Get(features, "planetary_radius_re"))
      verdict == Verdict(depth, radius, period)
  IN [prediction |-> verdict.prediction,
      probabilities |-> verdict.probabilities,
      shap |-> ShapOf(features, seed),
      rationale |-> [period |-> period, depth |-> depth, radius |-> radius]]

\* mockPredictWithFeatures(data.features) throws a TypeError where it reads a
\* property of an undefined features map, and where the rationale calls
\* toFixed on a period, depth or radius that is not a number.
mockPredictWithFeaturesThrows(data) ==
  \/ ~data.hasFeatures
  \/ \E key \in {"orbital_period_days", "transit_depth_ppm", "planetary_radius_re"} :
       ToFixedThrows(Get(data.features, key))

(***************************************************************************)
(* lib/constants.ts and lib/api.ts: the operations of apiClient.            *)
(***************************************************************************)
WrappedOps ==
  {"getHealth", "getModels", "getMetrics", "getFeatures", "predict",
   "getDataset", "getShapSample"}

Ops == WrappedOps \cup {"predictCSV"}

\* API_ENDPOINTS, and the literal path of predictCSV.
Url(op) ==
  CASE op = "getHealth" -> "/health"
    [] op = "getModels" -> "/models"
    [] op = "getMetrics" -> "/metrics"
    [] op = "getFeatures" -> "/features"
    [] op = "predict" -> "/predict"
    [] op = "getDataset" -> "/dataset"
    [] op = "getShapSample" -> "/shap/sample"
    [] op = "predictCSV" -> "/predict-csv"

\* api.get or api.post
Method(op) == IF op \in {"predict", "predictCSV"} THEN "POST" ELSE "GET"

\* axios.create({ timeout: 10000 }), in milliseconds
timeout == 10000

\* Mutant of TimedOut: the instance is created without a timeout.
TimedOutNever(elapsed) == FALSE

\* axios aborts a request once `timeout` milliseconds have passed without a
\* response (a timeout of 0 means none).
TimedOut(elapsed) == timeout > 0 /\ elapsed >= timeout

(***************************************************************************)
(* lib/types.ts: the declared response types, as the keys each declares     *)
(* (optional keys included) and the types of the values under them.         *)
(***************************************************************************)
MetricsKeys == {"accuracy", "precision", "recall", "f1"}
ModelInfoKeys == {"id", "name", "metrics"}
PredictResponseKeys == {"prediction", "probabilities", "shap", "rationale"}
ProbabilitiesKeys == {"confirmed", "candidate", "false_positive"}
ShapEntryKeys == {"feature", "value", "contribution"}
HealthResponseKeys == {"status", "last_ingest_iso"}
MetricsResponseKeys == {"overall", "perModel", "confusionMatrix"}
FeaturesResponseKeys == {"importances"}
ImportanceKeys == {"name", "importance"}
DatasetRowKeys ==
  {"id", "mission", "orbital_period_days", "transit_duration_hours",
   "planetary_radius_re", "transit_depth_ppm", "teff_k", "rstar_rs", "logg",
   "feh", "label"}
DatasetResponseKeys == {"rows", "total", "classCounts"}
ShapSampleKeys == {"id", "shap"}

Keys(obj) == DOMAIN obj

EachHasKeys(arr, keys) == \A i \in 1..Len(arr) : Keys(arr[i]) = keys

\* The value has exactly the keys its declared type declares, at every level
\* the type describes.
HasDeclaredKeys(op, v) ==
  CASE op = "getHealth" -> Keys(v) = HealthResponseKeys
    [] op = "getModels" ->
         /\ Keys(v) = {"items"}
         /\ EachHasKeys(v.items, ModelInfoKeys)
         /\ \A i \in 1..Len(v.items) : Keys(v.items[i].metrics) = MetricsKeys
    [] op = "getMetrics" ->
         /\ Keys(v) = MetricsResponseKeys
         /\ Keys(v.overall) = MetricsKeys
         /\ \A k \in Keys(v.perModel) : Keys(v.perModel[k]) = MetricsKeys
    [] op = "getFeatures" ->
         /\ Keys(v) = FeaturesResponseKeys
         /\ EachHasKeys(v.importances, ImportanceKeys)
    [] op = "predict" ->
         /\ Keys(v) = PredictResponseKeys
         /\ Keys(v.probabilities) = ProbabilitiesKeys
         /\ EachHasKeys(v.shap, ShapEntryKeys)
    [] op = "getDataset" ->
         /\ Keys(v) = DatasetResponseKeys
         /\ EachHasKeys(v.rows, DatasetRowKeys)
         /\ Keys(v.classCounts) = ProbabilitiesKeys
    [] op = "getShapSample" ->
         /\ Keys(v) = {"items"}
         /\ EachHasKeys(v.items, ShapSampleKeys)
         /\ \A i \in 1..Len(v.items) : EachHasKeys(v.items[i].shap, ShapEntryKeys)

(***************************************************************************)
(* Inputs: the arguments callers pass, what the backend answers and how the *)
(* transport fails.                                                         *)
(***************************************************************************)
F(period, depth, radius) ==
  << <<"orbital_period_days", period>>,
     <<"transit_depth_ppm", depth>>,
     <<"planetary_radius_re", radius>> >>

\* Feature maps of predict bodies: the examples of the heuristic's three
\* outcomes (the third has no period), a map with keys in another order
\* holding a NaN, and the empty map.
SampleFeatures ==
  { F(Num(365), Num(1200), Num(12)),
    F(Num(50), Num(600), Num(4)),
    << <<"transit_depth_ppm", Num(100)>>, <<"planetary_radius_re", Num(1)>> >>,
    << <<"planetary_radius_re", Num(12)>>, <<"feh", NaN>>,
       <<"orbital_period_days", Num(365)>>, <<"transit_depth_ppm", Num(1200)>> >>,
    << >> }

\* The feature maps the callers of predict are followed with.
CallerFeatures ==
  { F(Num(365), Num(1200), Num(12)),
    F(Num(50), Num(600), Num(4)),
    << <<"transit_depth_ppm", Num(100)>>, <<"planetary_radius_re", Num(1)>> >> }

\* hasFeatures is FALSE for a predict body whose features is undefined.
NoArgs ==
  [features |-> << >>, hasFeatures |-> TRUE, modelId |-> "undefined",
   mission |-> "undefined", page |-> Undefined, limit |-> Undefined,
   search |-> "undefined", file |-> << >>]

ArgsOf(op) ==
  CASE op = "predict" -> {[NoArgs EXCEPT !.features = f] : f \in CallerFeatures}
    [] op = "getDataset" ->
         {[NoArgs EXCEPT !.mission = m] : m \in {"undefined", "kepler", "k2", "tess"}}
    [] OTHER -> {NoArgs}

\* A payload of the declared response type, as a live backend sends it.
LiveBody(op) ==
  CASE op = "getHealth" -> [status |-> "ok", last_ingest_iso |-> "backend ingest time"]
    [] op = "getModels" ->
         Items(<< [id |-> "stacking", name |-> "Stacking Ensemble",
                    metrics |-> M(91, 90, 89, 90)] >>)
    [] op = "getMetrics" ->
         [overall |-> M(91, 90, 89, 90),
          perModel |-> [stacking |-> M(91, 90, 89, 90)],
          confusionMatrix |-> << <<9, 1, 0>>, <<1, 8, 1>>, <<0, 1, 9>> >>]
    [] op = "getFeatures" ->
         [importances |-> << [name |-> "orbital_period_days", importance |-> 100] >>]
    [] op = "predict" ->
         [prediction |-> "candidate",
          probabilities |-> Probabilities(33, 34, 33),
          shap |-> << [feature |-> "orbital_period_days", value |-> Num(365), contribution |-> 1] >>,
          rationale |-> [text |-> "backend rationale"]]
    [] op = "getDataset" ->
         [rows |-> << >>, total |-> 0,
          classCounts |-> [confirmed |-> 0, candidate |-> 0, false_positive |-> 0]]
    [] op = "getShapSample" ->
         Items(<< [id |-> <<"live-", 0>>,
                    shap |-> << [feature |-> "teff_k", value |-> Num(5778),
                                 contribution |-> 1] >>] >>)
    [] op = "predictCSV" -> [blob |-> "text/csv"]

\* A 2xx payload that is not of the declared type.
MalformedBody == [detail |-> "unexpected payload"]

\* What a 2xx response can carry.
BodyKinds == {"live", "malformed"}
ServerBody(op, kind) == IF kind = "live" THEN LiveBody(op) ELSE MalformedBody

\* AxiosError causes other than the timeout: no connection, non-2xx status.
FailureKinds == {"network", "status"}

(***************************************************************************)
(* The state of one invocation of an apiClient operation.                   *)
(***************************************************************************)
\* A settled promise's value is <<v>>; << >> while there is none.
Some(v) == <<v>>
None == << >>

\* target is the base URL and the path the request went to; response is the
\* body of the 2xx response that arrived, if one did.
IdleCall ==
  [op |-> "none", args |-> NoArgs, owner |-> "none", pc |-> "idle",
   elapsed |-> 0, requests |-> 0, target |-> <<"", "">>, log |-> << >>,
   toasts |-> << >>, cause |-> "none", response |-> None, value |-> None]

RequestLog(op) ==
  [level |-> "log", msg |-> "Making API request to:", method |-> Method(op), url |-> Url(op)]

ErrorLog(msg) == [level |-> "error", msg |-> msg, method |-> "", url |-> ""]

BackendOfflineToast == "Backend offline - using mock data"

DEFAULT_BACKEND_URL == "http://localhost:8000"

\* Mutant of API_BASE_URL: `??` in place of `||`, an empty value is kept.
API_BASE_URL_Nullish == IF env = None THEN DEFAULT_BACKEND_URL ELSE env[1]

\* process.env.NEXT_PUBLIC_BACKEND_URL || DEFAULT_BACKEND_URL: undefined and
\* the empty string are falsy.
API_BASE_URL ==
  IF env = None \/ env = Some("") THEN DEFAULT_BACKEND_URL ELSE env[1]

\* api.get / api.post: the request interceptor logs, the request goes out to
\* the instance's baseURL followed by the operation's path.
SendRequest(call) ==
  [call EXCEPT !.pc = "inflight", !.elapsed = 0,
               !.requests = @ + 1,
               !.target = <<API_BASE_URL, Url(call.op)>>,
               !.log = Append(@, RequestLog(call.op))]

\* The start of an async operation of apiClient, up to its await.
Enter(op, args, owner) ==
  SendRequest([IdleCall EXCEPT !.op = op, !.args = args, !.owner = owner])

\* The response interceptor's rejection handler: logs and rejects again.
ResponseInterceptorError(call, error) ==
  [call EXCEPT !.log = Append(@, ErrorLog("API Error:")), !.cause = error]

\* Mutant of handleApiError: the failure is passed on instead of absorbed.
handleApiErrorRethrows(call, error, fallbackData) ==
  [call EXCEPT !.log = Append(@, ErrorLog("API call failed, using mock data:")),
               !.pc = "rejected",
               !.value = Some([error |-> error])]

\* Mutant of handleApiError: the substitute is returned without a toast.
handleApiErrorSilent(call, error, fallbackData) ==
  [call EXCEPT !.log = Append(@, ErrorLog("API call failed, using mock data:")),
               !.pc = "resolved",
               !.value = Some(fallbackData)]

handleApiError(call, error, fallbackData) ==
  [call EXCEPT !.log = Append(@, ErrorLog("API call failed, using mock data:")),
               !.toasts = Append(@, BackendOfflineToast),
               !.pc = "resolved",
               !.value = Some(fallbackData)]

\* Mutant of getDatasetFallback: the mock rows of the requested mission are
\* cut to the requested page, of 50 rows when no limit is given.
getDatasetFallbackPaged(params) ==
  LET filteredRows ==
        IF params.mission # "undefined"
          THEN SelectSeq(mockDataset.rows, LAMBDA row : row.mission = params.mission)
          ELSE mockDataset.rows
      pageNo == IF Truthy(params.page) THEN params.page.n ELSE 1
      perPage == IF Truthy(params.limit) THEN params.limit.n ELSE 50
      first == (pageNo - 1) * perPage + 1
      last == IF pageNo * perPage < Len(filteredRows)
                THEN pageNo * perPage ELSE Len(filteredRows)
  IN [rows |-> SubSeq(filteredRows, first, last), total |-> Len(filteredRows)]

\* The catch block of getDataset: the mock rows of the requested mission.
getDatasetFallback(params) ==
  LET filteredRows ==
        IF params.mission # "undefined"
          THEN SelectSeq(mockDataset.rows, LAMBDA row : row.mission = params.mission)
          ELSE mockDataset.rows
  IN [rows |-> filteredRows, total |-> Len(filteredRows)]

\* The second argument of handleApiError in each wrapped operation's catch
\* block.
FallbackData(op, args, seed) ==
  CASE op = "getHealth" -> mockHealth
    [] op = "getModels" -> mockModels
    [] op = "getMetrics" -> mockMetrics
    [] op = "getFeatures" -> mockFeatures
    [] op = "predict" -> mockPredictWithFeatures(args.features, seed)
    [] op = "getDataset" -> getDatasetFallback(args)
    [] op = "getShapSample" -> mockShapSample

\* Mutant of Rethrow: predictCSV absorbs the failure as the wrapped operations
\* do, with a toast and an empty file as substitute.
RethrowSubstitutes(call, error) ==
  [call EXCEPT !.log = Append(@, ErrorLog("CSV prediction error:")),
               !.toasts = Append(@, BackendOfflineToast),
               !.pc = "resolved",
               !.value = Some([blob |-> "text/csv"])]

\* The catch block of predictCSV: console.error, then throw error.
Rethrow(call, error) ==
  [call EXCEPT !.log = Append(@, ErrorLog("CSV prediction error:")),
               !.pc = "rejected",
               !.value = Some([error |-> error])]

\* An exception thrown inside a catch block leaves the async function: its
\* promise rejects, and handleApiError has not been called.
Throw(call, exception) ==
  [call EXCEPT !.pc = "rejected", !.value = Some([error |-> exception])]

\* The argument expression of handleApiError throws.
FallbackThrows(op, args) == op = "predict" /\ mockPredictWithFeaturesThrows(args)

\* Mutant of Catch: getHealth logs and rethrows, as predictCSV does.
CatchHealthRethrows(call, error, seed) ==
  IF call.op \in {"getHealth", "predictCSV"}
    THEN Rethrow(call, error)
    ELSE handleApiError(call, error, FallbackData(call.op, call.args, seed))

\* The catch block of each operation, entered with the rejected request.
Catch(call, error, seed) ==
  IF call.op = "predictCSV"
    THEN Rethrow(call, error)
  ELSE IF FallbackThrows(call.op, call.args)
    THEN Throw(call, "TypeError")
  ELSE handleApiError(call, error, FallbackData(call.op, call.args, seed))

\* A request that failed: through the response interceptor into the catch block.
RequestFailed(call, error, seed) == Catch(ResponseInterceptorError(call, error), error, seed)

\* Mutant of RequestSucceeded: a body that is not of the declared type is
\* refused, as a schema check on the response would.
RequestSucceededValidated(call, body) ==
  IF body = MalformedBody
    THEN [call EXCEPT !.response = Some(body), !.pc = "rejected",
                      !.value = Some([error |-> "ValidationError"])]
    ELSE [call EXCEPT !.response = Some(body), !.pc = "resolved", !.value = Some(body)]

\* A 2xx response: the try block returns response.data.
RequestSucceeded(call, body) ==
  [call EXCEPT !.response = Some(body), !.pc = "resolved", !.value = Some(body)]

Settled(call) == call.pc \in {"resolved", "rejected"}

(***************************************************************************)
(* hooks/use-api-health.ts: the health query.                               *)
(***************************************************************************)
\* retry: 2
retry == 2

IdleHealthQuery ==
  [status |-> "pending", fetchStatus |-> "idle", call |-> 0,
   failureCount |-> 0, requests |-> 0, data |-> None]

\* Mutant of TopbarBadge: 'Online' only for health data a backend sent.
TopbarBadgeLiveOnly(query) ==
  IF query.data # None /\ query.data # Some(mockHealth) THEN "Online" ELSE "Offline"

\* components/nav/topbar.tsx: the status badge, {health ? Online : Offline}
\* for the data of the health query.
TopbarBadge(query) == IF query.data # None THEN "Online" ELSE "Offline"

(***************************************************************************)
(* lib/validation.ts and components/classify: the classification form.      *)
(* Units: transit_duration_hours and rstar_rs in tenths, logg and feh in    *)
(* hundredths, teff_k in kelvin.                                            *)
(***************************************************************************)
\* Model units per unit of the source, by feature.
PerUnit(key) ==
  CASE key \in {"planetary_radius_re", "transit_duration_hours", "rstar_rs"} -> 10
    [] key \in {"logg", "feh"} -> 100
    [] OTHER -> 1

\* featureFormSchema, in the order of its shape: each number's .min() in
\* tenths of the source's unit (0.1 is 1) and its .max() in whole units.
featureFormSchema ==
  << [key |-> "orbital_period_days", minTenths |-> 1, max |-> 10000],
     [key |-> "planetary_radius_re", minTenths |-> 1, max |-> 50],
     [key |-> "transit_duration_hours", minTenths |-> 1, max |-> 100],
     [key |-> "transit_depth_ppm", minTenths |-> 10, max |-> 100000],
     [key |-> "teff_k", minTenths |-> 20000, max |-> 10000],
     [key |-> "rstar_rs", minTenths |-> 1, max |-> 50],
     [key |-> "logg", minTenths |-> 0, max |-> 6] >>

\* Mutant of InBounds: the upper bound is not checked.
InBoundsNoMax(rule, v) ==
  v.kind = "number" /\ 10 * v.n >= rule.minTenths * PerUnit(rule.key)

\* z.number().min(..).max(..) on one value: a number (NaN is none), not
\* below the minimum and not above the maximum.
InBounds(rule, v) ==
  /\ v.kind = "number"
  /\ 10 * v.n >= rule.minTenths * PerUnit(rule.key)
  /\ v.n <= rule.max * PerUnit(rule.key)

\* The fields the resolver reports an error for.  modelId is an optional
\* string, and the Select only ever sets it to a string.
zodErrors(values) ==
  {featureFormSchema[i].key :
     i \in {j \in 1..Len(featureFormSchema) :
              ~InBounds(featureFormSchema[j],
                        Get(values.fields, featureFormSchema[j].key))}}

\* The parsed data of a valid form: the keys of the schema, in its order;
\* z.object strips every other key of the input.
zodData(values) ==
  [fields |-> [i \in 1..Len(featureFormSchema) |->
                 <<featureFormSchema[i].key,
                   Get(values.fields, featureFormSchema[i].key)>>],
   modelId |-> values.modelId]

\* The inputs the form registers, in the order it renders them.
FormFields ==
  <<"orbital_period_days", "transit_duration_hours", "planetary_radius_re",
    "transit_depth_ppm", "teff_k", "rstar_rs", "logg", "feh">>

\* The values of the form: one per registered input (valueAsNumber: an empty
\* or non-numeric input is NaN), and the model the Select has set, if any.
Values(numbers, modelId) ==
  [fields |-> [i \in 1..Len(FormFields) |-> <<FormFields[i], numbers[i]>>],
   modelId |-> modelId]

\* No input has a default under its registered name: all are empty.
EmptyValues == Values([i \in 1..Len(FormFields) |-> NaN], "undefined")

\* <Select value={form.watch("modelId") || "stacking"}>: the model the form
\* displays as selected.
SelectValue(modelId) == IF modelId = "undefined" THEN "stacking" ELSE modelId

\* The features literal of the body handleSubmit passes to predict.
RequestFeatures ==
  <<"orbital_period_days", "transit_duration_hours", "planetary_radius_re",
    "transit_depth_ppm", "teff_k", "rstar_rs", "logg", "feh">>

PredictBodyOf(data) ==
  [NoArgs EXCEPT
     !.modelId = data.modelId,
     !.features = [i \in 1..Len(RequestFeatures) |->
                     <<RequestFeatures[i], Get(data.fields, RequestFeatures[i])>>]]

(***************************************************************************)
(* app/classify/page.tsx: the state of ClassifyPage.  Three fields are       *)
(* history and no state of the component: latest is the slot of the          *)
(* submission made last, resultFrom the slot of the submission whose         *)
(* response set result, resultBefore the slot of the one whose result that   *)
(* replaced (0: none).                                                       *)
(***************************************************************************)
SubmitSlots == 1..MaxSubmits

InitialPage ==
  [result |-> None, isLoading |-> FALSE, lastPrediction |-> None,
   toasts |-> << >>, latest |-> 0, resultFrom |-> 0, resultBefore |-> 0]

InitialForm == [values |-> EmptyValues, errors |-> {}, disabled |-> FALSE]

Routes == {"classify", "visualize", "explanations"}

\* app/visualize/page.tsx: defaultFeatures, as far as the canvas reads them.
\* The canvas keeps the period in hundredths of a day (365.25 is 36525), the
\* radius in tenths of an Earth radius and the depth in ppm.
defaultFeatures ==
  [orbital_period_days |-> 36525, planetary_radius_re |-> 10,
   transit_depth_ppm |-> 1000]

\* PlanetCanvas as it mounts on a page whose state is lastClassification:
\* features is lastClassification?.features || defaultFeatures, and each
\* useState starts at features?.x || its default.  moved is history: a slider
\* has been moved since.
PlanetCanvas(lastClassification) ==
  LET features ==
        IF lastClassification # None /\ lastClassification[1].features # None
          THEN lastClassification[1].features[1].fields
          ELSE << >>
      read(key, perUnit) ==
        IF Truthy(Get(features, key))
          THEN perUnit * Get(features, key).n
          ELSE defaultFeatures[key]
  IN [mounted |-> TRUE,
      customPeriod |-> read("orbital_period_days", 100),
      customRadius |-> read("planetary_radius_re", 1),
      customDepth |-> read("transit_depth_ppm", 1),
      moved |-> FALSE]

\* No visualize page is mounted.
NoCanvas == [PlanetCanvas(None) EXCEPT !.mounted = FALSE]

\* unnamed/part_009: the state of DatasetTable.  A row is known by its place
\* in the data (0: null).  call is the invocation of predict in flight,
\* toasts what the handler raised last; resultOf is history: the row whose
\* features classificationResult was computed from.  details is the row
\* whose details dialog is open.
InitialTable ==
  [selectedRow |-> 0, classificationResult |-> None, isClassifying |-> FALSE,
   call |-> IdleCall, toasts |-> << >>, resultOf |-> 0, details |-> 0]

\* components/classify/csv-upload.tsx: the state of CSVUpload.  call is the
\* invocation of predictCSV in flight, toasts what the last handler raised.
InitialUpload ==
  [uploadedFile |-> None, isProcessing |-> FALSE, processedData |-> None,
   downloadUrl |-> None, call |-> IdleCall, toasts |-> << >>]

WidgetIdle == table = InitialTable /\ upload = InitialUpload

PageIdle ==
  /\ route = "classify"
  /\ page = InitialPage
  /\ form = InitialForm
  /\ submits = [i \in SubmitSlots |-> IdleCall]
  /\ localStorage = None
  /\ reader = None
  /\ canvas = NoCanvas

CsvIdle == csvInput = << >> /\ csvOutput = None

(***************************************************************************)
(* JSON.stringify and JSON.parse on the record kept under                   *)
(* 'lastClassification'.  A text is [format |-> "json", tree |-> t], where  *)
(* t is the value the text denotes.                                         *)
(***************************************************************************)
\* A number: NaN has no JSON form and is written as null.
JsonNumber(v) == IF v.kind = "NaN" THEN Null ELSE v

\* An object of numbers: a property whose value is undefined is left out.
JsonObject(pairs) ==
  LET kept == SelectSeq(pairs, LAMBDA e : e[2].kind # "undefined")
  IN [i \in 1..Len(kept) |-> <<kept[i][1], JsonNumber(kept[i][2])>>]

JsonData(data) == [fields |-> JsonObject(data.fields), modelId |-> data.modelId]

JsonShapEntry(e) ==
  IF e.value.kind = "undefined"
    THEN [feature |-> e.feature, contribution |-> e.contribution]
    ELSE [e EXCEPT !.value = JsonNumber(@)]

JsonResult(result) ==
  IF "shap" \in DOMAIN result
    THEN [result EXCEPT !.shap = [i \in 1..Len(result.shap) |->
                                    JsonShapEntry(result.shap[i])]]
    ELSE result

JSONStringify(record) ==
  [format |-> "json",
   tree |-> [features |-> IF record.features = None
                            THEN None
                            ELSE Some(JsonData(record.features[1])),
             result |-> JsonResult(record.result),
             timestamp |-> record.timestamp]]

JSONParse(text) == text.tree

(***************************************************************************)
(* The state machine.                                                       *)
(***************************************************************************)
Slots == 1..MaxCalls

ClientIdle ==
  /\ calls = [c \in Slots |-> IdleCall]
  /\ rnd \in RandomSeeds
  /\ healthQuery = IdleHealthQuery

\* The build the default configuration gives: the variable is not set.
ClientInit == ClientIdle /\ env = None

MockIdle == mockInput = << >> /\ mockOutput = None

Init == ClientInit /\ MockIdle /\ PageIdle /\ CsvIdle /\ WidgetIdle

\* A caller (a page, a component, a query) invokes an operation.
Invoke(c, op, args) ==
  /\ calls[c].pc = "idle"
  /\ calls' = [calls EXCEPT ![c] = Enter(op, args, "caller")]
  /\ UNCHANGED <<rnd, healthQuery, env, mockVars, pageVars, csvVars, widgetVars>>

\* Time passes for a request in flight, up to the deadline of its timeout.
Tick(c) ==
  /\ calls[c].pc = "inflight"
  /\ calls[c].elapsed < timeout
  /\ calls' = [calls EXCEPT ![c].elapsed = @ + TickMs]
  /\ UNCHANGED <<rnd, healthQuery, env, mockVars, pageVars, csvVars, widgetVars>>

\* The backend answers 2xx before the timeout.
Respond(c, kind) ==
  /\ calls[c].pc = "inflight"
  /\ ~TimedOut(calls[c].elapsed)
  /\ calls' = [calls EXCEPT ![c] = RequestSucceeded(@, ServerBody(@.op, kind))]
  /\ UNCHANGED <<rnd, healthQuery, env, mockVars, pageVars, csvVars, widgetVars>>

\* The request fails before the timeout: no connection, or a non-2xx status.
Fail(c, kind, seed) ==
  /\ calls[c].pc = "inflight"
  /\ ~TimedOut(calls[c].elapsed)
  /\ calls' = [calls EXCEPT ![c] = RequestFailed(@, kind, seed)]
  /\ UNCHANGED <<rnd, healthQuery, env, mockVars, pageVars, csvVars, widgetVars>>

\* axios aborts the request at the timeout.
AxiosTimeout(c, seed) ==
  /\ calls[c].pc = "inflight"
  /\ TimedOut(calls[c].elapsed)
  /\ calls' = [calls EXCEPT ![c] = RequestFailed(@, "timeout", seed)]
  /\ UNCHANGED <<rnd, healthQuery, env, mockVars, pageVars, csvVars, widgetVars>>

\* The caller has taken the outcome of its invocation.
Forget(c) ==
  /\ Settled(calls[c])
  /\ calls[c].owner = "caller"
  /\ calls' = [calls EXCEPT ![c] = IdleCall]
  /\ UNCHANGED <<rnd, healthQuery, env, mockVars, pageVars, csvVars, widgetVars>>

\* useQuery starts a fetch (on mount, and every refetchInterval): it calls
\* queryFn, which is getHealth.
HealthQueryFetch(c) ==
  /\ healthQuery.fetchStatus = "idle"
  /\ calls[c].pc = "idle"
  /\ calls' = [calls EXCEPT ![c] = Enter("getHealth", NoArgs, "healthQuery")]
  /\ healthQuery' = [healthQuery EXCEPT !.fetchStatus = "fetching", !.call = c,
                                        !.failureCount = 0, !.requests = 1]
  /\ UNCHANGED <<rnd, env, mockVars, pageVars, csvVars, widgetVars>>

\* queryFn's promise settles: data on resolve; on reject, up to `retry`
\* further calls of queryFn, then the error state.
HealthQuerySettle ==
  /\ healthQuery.fetchStatus = "fetching"
  /\ Settled(calls[healthQuery.call])
  /\ LET c == healthQuery.call
         call == calls[c]
     IN IF call.pc = "resolved"
          THEN /\ healthQuery' = [healthQuery EXCEPT !.status = "success",
                                                     !.fetchStatus = "idle",
                                                     !.call = 0,
                                                     !.data = call.value]
               /\ calls' = [calls EXCEPT ![c] = IdleCall]
          ELSE IF healthQuery.failureCount < retry
            THEN /\ healthQuery' = [healthQuery EXCEPT !.failureCount = @ + 1,
                                                       !.requests = @ + 1]
                 /\ calls' = [calls EXCEPT ![c] = Enter("getHealth", NoArgs, "healthQuery")]
            ELSE /\ healthQuery' = [healthQuery EXCEPT !.status = "error",
                                                       !.fetchStatus = "idle",
                                                       !.call = 0]
                 /\ calls' = [calls EXCEPT ![c] = IdleCall]
  /\ UNCHANGED <<rnd, env, mockVars, pageVars, csvVars, widgetVars>>

Next ==
  \/ \E c \in Slots, op \in Ops : \E args \in ArgsOf(op) : Invoke(c, op, args)
  \/ \E c \in Slots : Tick(c)
  \/ \E c \in Slots, kind \in BodyKinds : Respond(c, kind)
  \/ \E c \in Slots, kind \in FailureKinds, seed \in RandomSeeds : Fail(c, kind, seed)
  \/ \E c \in Slots, seed \in RandomSeeds : AxiosTimeout(c, seed)
  \/ \E c \in Slots : Forget(c)
  \/ \E c \in Slots : HealthQueryFetch(c)
  \/ HealthQuerySettle

Spec == Init /\ [][Next]_vars

\* The client under each build environment: NEXT_PUBLIC_BACKEND_URL unset,
\* set to the empty string, or set to a URL.
EnvValues == {None, Some(""), Some("https://api.exoai.example")}

EnvInit ==
  /\ ClientIdle /\ env \in EnvValues
  /\ MockIdle /\ PageIdle /\ CsvIdle /\ WidgetIdle

EnvSpec == EnvInit /\ [][Next]_vars

(***************************************************************************)
(* The substitute classifier on its own: mockPredictWithFeatures applied to *)
(* feature maps around its thresholds.                                      *)
(***************************************************************************)
Absent == [kind |-> "absent", n |-> 0]

PeriodValues == {Absent, NaN, Num(0), Num(10), Num(11), Num(999), Num(1000)}
DepthValues == {Absent, Num(500), Num(501), Num(1000), Num(1001)}
RadiusValues == {Absent, Num(3), Num(4), Num(5), Num(6)}

\* The object literal with the keys whose value is Absent left out.
Present(features) == SelectSeq(features, LAMBDA e : e[2] # Absent)

MockInputs ==
  {Present(F(p, d, r)) : p \in PeriodValues, d \in DepthValues, r \in RadiusValues}
    \cup SampleFeatures
    \cup {<< <<"transit_depth_ppm", Undefined>>, <<"planetary_radius_re", Num(6)>>,
              <<"orbital_period_days", Num(11)>> >>}

MockInit ==
  /\ ClientInit
  /\ mockInput \in MockInputs
  /\ mockOutput = None
  /\ PageIdle
  /\ CsvIdle
  /\ WidgetIdle

CallMockPredict(seed) ==
  /\ mockOutput = None
  /\ mockOutput' = Some(mockPredictWithFeatures(mockInput, seed))
  /\ UNCHANGED <<clientVars, mockInput, pageVars, csvVars, widgetVars>>

MockNext == \E seed \in RandomSeeds : CallMockPredict(seed)

MockSpec == MockInit /\ [][MockNext]_vars

\* Time passes and armed timers fire: the event loop runs them.
FairSpec ==
  /\ Spec
  /\ \A c \in Slots : WF_vars(Tick(c))
  /\ \A c \in Slots : WF_vars(\E seed \in RandomSeeds : AxiosTimeout(c, seed))

(***************************************************************************)
(* The client called with predict bodies that TypeScript does not vouch     *)
(* for: the values of a dataset row parsed from a response that nothing     *)
(* validated, or a body without a features map.                             *)
(***************************************************************************)
UntypedFeatures ==
  { F(Str, Num(1200), Num(12)),
    F(Num(365), Null, Num(12)),
    F(Num(365), Num(1200), NaN),
    << <<"feh", Str>> >>,
    << >> }

UntypedBodies ==
  {[NoArgs EXCEPT !.features = f] : f \in UntypedFeatures \cup CallerFeatures}
    \cup {[NoArgs EXCEPT !.hasFeatures = FALSE]}

UntypedNext ==
  \/ \E c \in Slots, data \in UntypedBodies : Invoke(c, "predict", data)
  \/ \E c \in Slots, op \in WrappedOps \ {"predict"} :
       \E args \in ArgsOf(op) : Invoke(c, op, args)
  \/ \E c \in Slots : Tick(c)
  \/ \E c \in Slots, kind \in BodyKinds : Respond(c, kind)
  \/ \E c \in Slots, kind \in FailureKinds, seed \in RandomSeeds : Fail(c, kind, seed)
  \/ \E c \in Slots, seed \in RandomSeeds : AxiosTimeout(c, seed)
  \/ \E c \in Slots : Forget(c)

UntypedSpec == Init /\ [][UntypedNext]_vars

(***************************************************************************)
(* getDataset alone, over its four parameters: mission, page, limit and     *)
(* search.                                                                  *)
(***************************************************************************)
DatasetParams ==
  {[NoArgs EXCEPT !.mission = mission, !.page = paging[1], !.limit = paging[2],
                  !.search = paging[3]] :
     mission \in {"undefined", "kepler", "k2", "tess"},
     paging \in {<<Undefined, Undefined, "undefined">>,
                 <<Num(2), Undefined, "undefined">>,
                 <<Undefined, Num(10), "undefined">>,
                 <<Num(3), Num(10), "mock-7">>}}

DatasetNext ==
  \/ \E c \in Slots, params \in DatasetParams : Invoke(c, "getDataset", params)
  \/ \E c \in Slots : Tick(c)
  \/ \E c \in Slots, kind \in BodyKinds : Respond(c, kind)
  \/ \E c \in Slots, kind \in FailureKinds, seed \in RandomSeeds : Fail(c, kind, seed)
  \/ \E c \in Slots, seed \in RandomSeeds : AxiosTimeout(c, seed)
  \/ \E c \in Slots : Forget(c)

DatasetSpec == Init /\ [][DatasetNext]_vars

(***************************************************************************)
(* The classify page: the form is submitted, predict settles, the result is *)
(* taken to the explanations page, the user moves between pages.            *)
(***************************************************************************)
\* What the user can have typed: the example of a confirmed planet with the
\* Select left alone; every field at its minimum, the metallicity left empty
\* and a model chosen in the Select; every field at its maximum.
ConfirmedExample ==
  <<Num(365), Num(135), Num(12), Num(1200), Num(5778), Num(10), Num(444), Num(0)>>

MinimumExample ==
  <<Num(1), Num(1), Num(1), Num(1), Num(2000), Num(1), Num(0), NaN>>

MaximumExample ==
  <<Num(10000), Num(1000), Num(500), Num(100000), Num(10000), Num(500), Num(600),
    Num(100)>>

ValidInputs ==
  { Values(ConfirmedExample, "undefined"),
    Values(MinimumExample, "random_forest") }

\* The greatest value below a field's minimum and the least above its maximum.
JustBelow(rule) == Num((rule.minTenths * PerUnit(rule.key) - 1) \div 10)
JustAbove(rule) == Num(rule.max * PerUnit(rule.key) + 1)

\* The confirmed example with one field changed.
WithField(key, v) ==
  Values([i \in 1..Len(FormFields) |->
            IF FormFields[i] = key THEN v ELSE ConfirmedExample[i]],
         "undefined")

\* One field that is not a number, or just outside its bounds.
InvalidInputs ==
  {WithField(featureFormSchema[i].key, v) :
     i \in 1..Len(featureFormSchema), v \in {NaN}}
  \cup {WithField(featureFormSchema[i].key, JustBelow(featureFormSchema[i])) :
          i \in 1..Len(featureFormSchema)}
  \cup {WithField(featureFormSchema[i].key, JustAbove(featureFormSchema[i])) :
          i \in 1..Len(featureFormSchema)}

PageInputs == ValidInputs \cup {EmptyValues}

FormInputs ==
  {Values(MinimumExample, "random_forest"), Values(MaximumExample, "undefined"),
   EmptyValues} \cup InvalidInputs

\* new Date().toISOString() at the moment of the click.
Timestamps == {"2025-10-04T10:00:00.000Z", "2025-10-04T10:05:00.000Z"}

HasFreeSlot == \E i \in SubmitSlots : submits[i].pc # "inflight"

FreeSlot ==
  CHOOSE i \in SubmitSlots :
    /\ submits[i].pc # "inflight"
    /\ \A j \in SubmitSlots : submits[j].pc # "inflight" => i <= j

\* handleSubmit up to its await: setIsLoading(true), setLastPrediction(data).
\* A slot that is taken again no longer stands for the submission before.
handleSubmit(p, data, i) ==
  [p EXCEPT !.isLoading = TRUE, !.lastPrediction = Some(data), !.latest = i,
            !.resultFrom = IF @ = i THEN 0 ELSE @,
            !.resultBefore = IF @ = i THEN 0 ELSE @]

SuccessToast == "Classification completed successfully!"
FailureToast == "Failed to classify exoplanet. Please try again."

\* Mutant of handleSubmitSettled: a substitute prediction is refused, the
\* page reports a failure when the client has reported the backend offline.
handleSubmitSettledRefusesMock(p, call, i) ==
  IF call.owner # "classify" THEN p
  ELSE IF call.pc = "resolved" /\ call.toasts = << >>
    THEN [p EXCEPT !.result = call.value, !.isLoading = FALSE,
                   !.toasts = Append(call.toasts, SuccessToast),
                   !.resultBefore = p.resultFrom, !.resultFrom = i]
  ELSE [p EXCEPT !.isLoading = FALSE, !.toasts = Append(call.toasts, FailureToast)]

\* Mutant of handleSubmitSettled: isLoading is cleared on failure only.
handleSubmitSettledStillLoading(p, call, i) ==
  IF call.owner # "classify" THEN p
  ELSE IF call.pc = "resolved"
    THEN [p EXCEPT !.result = call.value,
                   !.toasts = Append(call.toasts, SuccessToast),
                   !.resultBefore = p.resultFrom, !.resultFrom = i]
  ELSE [p EXCEPT !.isLoading = FALSE, !.toasts = Append(call.toasts, FailureToast)]

\* Mutant of handleSubmitSettled: a response is dropped unless it answers the
\* submission made last.
handleSubmitSettledLatestOnly(p, call, i) ==
  IF call.owner # "classify" THEN p
  ELSE IF call.pc = "resolved" /\ i = p.latest
    THEN [p EXCEPT !.result = call.value, !.isLoading = FALSE,
                   !.toasts = Append(call.toasts, SuccessToast),
                   !.resultBefore = p.resultFrom, !.resultFrom = i]
  ELSE IF call.pc = "resolved"
    THEN [p EXCEPT !.isLoading = FALSE]
  ELSE [p EXCEPT !.isLoading = FALSE, !.toasts = Append(call.toasts, FailureToast)]

\* handleSubmit after its await: setResult and the success toast when predict
\* resolved, the error toast of the catch block when it rejected, and
\* setIsLoading(false) in the finally block.  toasts are those raised since
\* the request failed or was answered, the client's included.  A page that
\* has been unmounted takes no state.
handleSubmitSettled(p, call, i) ==
  IF call.owner # "classify" THEN p
  ELSE IF call.pc = "resolved"
    THEN [p EXCEPT !.result = call.value, !.isLoading = FALSE,
                   !.toasts = Append(call.toasts, SuccessToast),
                   !.resultBefore = p.resultFrom, !.resultFrom = i]
  ELSE [p EXCEPT !.isLoading = FALSE, !.toasts = Append(call.toasts, FailureToast)]

\* form.handleSubmit(handleSubmit): the resolver validates the values; with
\* errors they are shown and onSubmit is not called, without errors onSubmit
\* is called with the parsed data.
SubmitForm(values) ==
  /\ route = "classify"
  /\ ~form.disabled
  /\ IF zodErrors(values) # {}
       THEN /\ form' = [form EXCEPT !.values = values, !.errors = zodErrors(values)]
            /\ UNCHANGED <<page, submits>>
       ELSE /\ HasFreeSlot
            /\ form' = [form EXCEPT !.values = values, !.errors = {}]
            /\ page' = handleSubmit(page, zodData(values), FreeSlot)
            /\ submits' = [submits EXCEPT ![FreeSlot] =
                             Enter("predict", PredictBodyOf(zodData(values)), "classify")]
  /\ UNCHANGED <<route, localStorage, reader, canvas, clientVars, mockVars, csvVars, widgetVars>>

\* React renders the page: <Button type="submit" disabled={isLoading}>.
Render ==
  /\ route = "classify"
  /\ form.disabled # page.isLoading
  /\ form' = [form EXCEPT !.disabled = page.isLoading]
  /\ UNCHANGED <<route, page, submits, localStorage, reader, canvas, clientVars, mockVars, csvVars, widgetVars>>

\* The backend answers a submission's request with a 2xx response; the
\* handler runs to its end and the invocation is over.
PredictResponds(i, kind) ==
  /\ submits[i].pc = "inflight"
  /\ LET call == RequestSucceeded(submits[i], ServerBody("predict", kind))
     IN /\ submits' = [submits EXCEPT ![i] = IdleCall]
        /\ page' = handleSubmitSettled(page, call, i)
  /\ UNCHANGED <<route, form, localStorage, reader, canvas, clientVars, mockVars, csvVars, widgetVars>>

\* A submission's request fails.
PredictFails(i, error, seed) ==
  /\ submits[i].pc = "inflight"
  /\ LET call == RequestFailed(submits[i], error, seed)
     IN /\ submits' = [submits EXCEPT ![i] = IdleCall]
        /\ page' = handleSubmitSettled(page, call, i)
  /\ UNCHANGED <<route, form, localStorage, reader, canvas, clientVars, mockVars, csvVars, widgetVars>>

\* ResultPanel renders its buttons for a result with a prediction and
\* probabilities, and the page renders ResultPanel for a result.
CanViewExplanations ==
  /\ page.result # None
  /\ {"prediction", "probabilities"} \subseteq DOMAIN page.result[1]

\* The mount effect of the visualize and the explanations page: getItem, and
\* JSON.parse of what is stored; the state is set to what was parsed, and
\* stays null when JSON.parse throws.
ReadStored ==
  IF localStorage = None \/ localStorage[1].format # "json"
    THEN None
    ELSE Some(JSONParse(localStorage[1]))

\* handleViewExplanations: the record is stored and window.location.href is
\* set, which replaces the document (requests in flight end with it) and
\* loads the explanations page.
handleViewExplanations(timestamp) ==
  /\ route = "classify"
  /\ CanViewExplanations
  /\ localStorage' =
       Some(JSONStringify([features |-> page.lastPrediction,
                           result |-> page.result[1],
                           timestamp |-> timestamp]))
  /\ route' = "explanations"
  /\ page' = InitialPage
  /\ form' = InitialForm
  /\ submits' = [i \in SubmitSlots |-> IdleCall]
  /\ reader' = Some(JSONParse(localStorage'[1]))
  /\ canvas' = NoCanvas
  /\ UNCHANGED <<clientVars, mockVars, csvVars, widgetVars>>

\* What is left of a submission when its page is unmounted: a request in
\* flight goes on, without a component to take its outcome.
Unmounted(call) ==
  IF call.pc = "inflight" THEN [call EXCEPT !.owner = "unmounted"] ELSE IdleCall

\* A <Link> of the sidebar: the router unmounts the page and mounts the next.
Navigate(to) ==
  /\ to # route
  /\ route' = to
  /\ page' = InitialPage
  /\ form' = InitialForm
  /\ submits' = [i \in SubmitSlots |-> Unmounted(submits[i])]
  /\ reader' = IF to = "classify" THEN None ELSE ReadStored
  /\ canvas' = IF to = "visualize" THEN PlanetCanvas(None) ELSE NoCanvas
  /\ UNCHANGED <<localStorage, clientVars, mockVars, csvVars, widgetVars>>

PageNext ==
  \/ \E values \in PageInputs : SubmitForm(values)
  \/ Render
  \/ \E i \in SubmitSlots, kind \in BodyKinds : PredictResponds(i, kind)
  \/ \E i \in SubmitSlots : PredictFails(i, "network", rnd)
  \/ \E timestamp \in Timestamps : handleViewExplanations(timestamp)
  \/ \E to \in Routes : Navigate(to)

\* One Math.random stream is followed: the draws of a substitute do not bear
\* on what the page does with it.
PageInit == Init /\ rnd = 0

PageSpec == PageInit /\ [][PageNext]_vars

\* The form on its own, over every input next to a bound of the schema.
FormNext ==
  \/ \E values \in FormInputs : SubmitForm(values)
  \/ Render
  \/ \E i \in SubmitSlots, kind \in BodyKinds : PredictResponds(i, kind)
  \/ \E i \in SubmitSlots : PredictFails(i, "network", rnd)

FormSpec == PageInit /\ [][FormNext]_vars

(***************************************************************************)
(* The pages that read 'lastClassification', over what the key can hold:     *)
(* records as handleViewExplanations writes them, and values it never        *)
(* writes (text that is no JSON, {} and a record whose result has no shap).  *)
(***************************************************************************)
StoredTexts ==
  LET written(values, from) ==
        JSONStringify(
          [features |-> Some(zodData(values)),
           result |-> IF from = "backend"
                        THEN LiveBody("predict")
                        ELSE mockPredictWithFeatures(
                               PredictBodyOf(zodData(values)).features, 0),
           timestamp |-> "2025-10-04T10:00:00.000Z"])
      object(result) ==
        [format |-> "json",
         tree |-> [features |-> None, result |-> result, timestamp |-> "undefined"]]
  IN {written(values, from) : values \in ValidInputs, from \in {"backend", "mock"}}
       \cup {[object(Undefined) EXCEPT !.format = "invalid"],
             object(Undefined),
             object([prediction |-> "confirmed",
                     probabilities |-> Probabilities(75, 20, 5)])}

\* A slider of the canvas's controls, moved to an end of its range: period
\* 1..1000 days, radius 0.1..10 Earth radii, depth 100..10000 ppm.
MoveSlider(slider, end) ==
  /\ route = "visualize"
  /\ canvas' =
       CASE slider = "period" ->
              [canvas EXCEPT !.moved = TRUE,
                             !.customPeriod = IF end = "min" THEN 100 ELSE 100000]
         [] slider = "radius" ->
              [canvas EXCEPT !.moved = TRUE,
                             !.customRadius = IF end = "min" THEN 1 ELSE 100]
         [] slider = "depth" ->
              [canvas EXCEPT !.moved = TRUE,
                             !.customDepth = IF end = "min" THEN 100 ELSE 10000]
  /\ UNCHANGED <<route, page, form, submits, localStorage, reader,
                 clientVars, mockVars, csvVars, widgetVars>>

\* The explanations page renders <ProbabilityGauge
\* probabilities={localClassification.result.probabilities}> for a state
\* that is not null: a TypeError when result is undefined, and in
\* ProbabilityGauge's Object.entries when probabilities is. Its effect has
\* set jsonInput to JSON.stringify(parsed.result.shap, null, 2), which is
\* undefined for a result without shap, and the page renders
\* disabled={!jsonInput.trim()}.
RenderFails ==
  /\ route = "explanations"
  /\ reader # None
  /\ \/ "probabilities" \notin DOMAIN reader[1].result
     \/ "shap" \notin DOMAIN reader[1].result

ViewerInit ==
  /\ ClientInit /\ MockIdle /\ CsvIdle /\ WidgetIdle
  /\ route = "classify"
  /\ page = InitialPage
  /\ form = InitialForm
  /\ submits = [i \in SubmitSlots |-> IdleCall]
  /\ localStorage \in {None} \cup {Some(text) : text \in StoredTexts}
  /\ reader = None
  /\ canvas = NoCanvas

ViewerNext ==
  \/ \E to \in Routes : Navigate(to)
  \/ \E slider \in {"period", "radius", "depth"}, end \in {"min", "max"} :
       MoveSlider(slider, end)

ViewerSpec == ViewerInit /\ [][ViewerNext]_vars

(***************************************************************************)
(* unnamed/part_009: DatasetTable.  Its rows are the first MaxRows rows of  *)
(* the mock dataset; every row renders its own <Dialog>, and all of them    *)
(* read the one classificationResult of the table.                          *)
(***************************************************************************)
TableRows == 1..MaxRows

\* The features handleClassifyRow passes to predict, in the order of its
\* object literal.
RowFeatures(row) ==
  [i \in 1..Len(FormFields) |-> <<FormFields[i], Num(row[FormFields[i]])>>]

TableSuccessToast == "Classification completed!"
TableFailureToast == "Failed to classify exoplanet"

\* handleClassifyRow up to its await.  The menu item is disabled while
\* isClassifying, and the menu closes on a click.
handleClassifyRow(k) ==
  /\ ~table.isClassifying
  /\ table' = [table EXCEPT
                 !.isClassifying = TRUE,
                 !.selectedRow = k,
                 !.call = Enter("predict",
                                [NoArgs EXCEPT !.features = RowFeatures(mockDataset.rows[k])],
                                "table")]
  /\ UNCHANGED <<clientVars, mockVars, pageVars, csvVars, upload>>

\* handleClassifyRow after its await, for the settled promise of predict.
handleClassifyRowSettled(t, call) ==
  IF call.pc = "resolved"
    THEN [t EXCEPT !.classificationResult = call.value,
                   !.resultOf = t.selectedRow,
                   !.toasts = Append(call.toasts, TableSuccessToast),
                   !.isClassifying = FALSE,
                   !.call = IdleCall]
    ELSE [t EXCEPT !.toasts = Append(call.toasts, TableFailureToast),
                   !.isClassifying = FALSE,
                   !.call = IdleCall]

ClassifyResponds(kind) ==
  /\ table.call.pc = "inflight"
  /\ table' = handleClassifyRowSettled(
                 table, RequestSucceeded(table.call, ServerBody("predict", kind)))
  /\ UNCHANGED <<clientVars, mockVars, pageVars, csvVars, upload>>

ClassifyFails(error, seed) ==
  /\ table.call.pc = "inflight"
  /\ table' = handleClassifyRowSettled(table, RequestFailed(table.call, error, seed))
  /\ UNCHANGED <<clientVars, mockVars, pageVars, csvVars, upload>>

\* 'View Details' of row k opens that row's dialog; a dialog is modal.
ViewDetails(k) ==
  /\ table.details = 0
  /\ table' = [table EXCEPT !.details = k]
  /\ UNCHANGED <<clientVars, mockVars, pageVars, csvVars, upload>>

CloseDetails ==
  /\ table.details # 0
  /\ table' = [table EXCEPT !.details = 0]
  /\ UNCHANGED <<clientVars, mockVars, pageVars, csvVars, upload>>

\* The dialog of a row renders 'AI Classification Result' when
\* classificationResult is set.
DialogShowsResult(k) == table.details = k /\ table.classificationResult # None

TableNext ==
  \/ \E k \in TableRows : handleClassifyRow(k)
  \/ \E kind \in BodyKinds : ClassifyResponds(kind)
  \/ \E error \in FailureKinds : ClassifyFails(error, rnd)
  \/ \E k \in TableRows : ViewDetails(k)
  \/ CloseDetails

TableSpec == Init /\ [][TableNext]_vars

(***************************************************************************)
(* components/classify/csv-upload.tsx: CSVUpload.                           *)
(***************************************************************************)
\* The files a user drops: three CSV files and one that is none.
DroppedFiles ==
  {[name |-> "planets.csv", type |-> "text/csv"],
   [name |-> "candidates.csv", type |-> "text/csv"],
   [name |-> "tess.csv", type |-> "text/csv"],
   [name |-> "notes.txt", type |-> "text/plain"]}

UploadedToast(file) == <<"File uploaded successfully", file.name>>
NotCsvToast == <<"Please upload a CSV file", "">>
ProcessedToast == <<"CSV processed successfully!", "">>
ProcessFailedToast == <<"Failed to process CSV. Please check the file format.", "">>
DownloadedToast == <<"File downloaded successfully!", "">>

onDrop(file) ==
  /\ upload' =
       IF file.type = "text/csv"
         THEN [upload EXCEPT !.uploadedFile = Some(file),
                             !.processedData = None,
                             !.downloadUrl = None,
                             !.toasts = <<UploadedToast(file)>>]
         ELSE [upload EXCEPT !.toasts = <<NotCsvToast>>]
  /\ UNCHANGED <<clientVars, mockVars, pageVars, csvVars, table>>

\* The buttons of the component, as rendered for a state.
ProcessOffered(u) ==
  u.uploadedFile # None /\ u.processedData = None /\ ~u.isProcessing
DownloadOffered(u) == u.downloadUrl # None
ClearOffered(u) == u.uploadedFile # None \/ u.processedData # None

\* window.URL.createObjectURL(blob)
createObjectURL(blob) == <<"blob:", blob>>

\* The preview: the first five lines after the header of the blob's text.
PreviewRows(blob) == [previewOf |-> blob]

\* handleProcessCSV up to its await.
handleProcessCSV ==
  /\ ProcessOffered(upload)
  /\ upload' = [upload EXCEPT !.isProcessing = TRUE,
                              !.call = Enter("predictCSV",
                                             [NoArgs EXCEPT !.file = upload.uploadedFile],
                                             "upload")]
  /\ UNCHANGED <<clientVars, mockVars, pageVars, csvVars, table>>

\* handleProcessCSV after its await, for the settled promise of predictCSV.
handleProcessCSVSettled(u, call) ==
  IF call.pc = "resolved"
    THEN [u EXCEPT !.downloadUrl = Some(createObjectURL(call.value[1])),
                   !.processedData = Some(PreviewRows(call.value[1])),
                   !.toasts = Append(call.toasts, ProcessedToast),
                   !.isProcessing = FALSE,
                   !.call = IdleCall]
    ELSE [u EXCEPT !.toasts = Append(call.toasts, ProcessFailedToast),
                   !.isProcessing = FALSE,
                   !.call = IdleCall]

UploadResponds(kind) ==
  /\ upload.call.pc = "inflight"
  /\ upload' = handleProcessCSVSettled(
                  upload, RequestSucceeded(upload.call, ServerBody("predictCSV", kind)))
  /\ UNCHANGED <<clientVars, mockVars, pageVars, csvVars, table>>

UploadFails(error) ==
  /\ upload.call.pc = "inflight"
  /\ upload' = handleProcessCSVSettled(upload, RequestFailed(upload.call, error, rnd))
  /\ UNCHANGED <<clientVars, mockVars, pageVars, csvVars, table>>

handleDownload ==
  /\ DownloadOffered(upload)
  /\ upload' = [upload EXCEPT !.toasts = <<DownloadedToast>>]
  /\ UNCHANGED <<clientVars, mockVars, pageVars, csvVars, table>>

handleClear ==
  /\ ClearOffered(upload)
  /\ upload' = [upload EXCEPT !.uploadedFile = None,
                              !.processedData = None,
                              !.downloadUrl = None]
  /\ UNCHANGED <<clientVars, mockVars, pageVars, csvVars, table>>

UploadNext ==
  \/ \E file \in DroppedFiles : onDrop(file)
  \/ handleProcessCSV
  \/ \E kind \in BodyKinds : UploadResponds(kind)
  \/ \E error \in FailureKinds : UploadFails(error)
  \/ handleDownload
  \/ handleClear

UploadSpec == Init /\ [][UploadNext]_vars

(* The sources hold two definitions of it; a build has one of them.  A CSV  *)
(* text is the sequence of its lines, a line the sequence of its cells.     *)
(***************************************************************************)
CsvKeys == {"id", "orbital_period_days", "planetary_radius_re"}

\* The keys of a row, in the order the row has them: rows differ in their
\* key order and in their key set.
KeyOrders ==
  {<<k>> : k \in CsvKeys}
    \cup {<<k[1], k[2]>> : k \in {p \in CsvKeys \X CsvKeys : p[1] # p[2]}}

\* Row r with the keys of order; the value tells the row and the key.
CsvRow(r, order) ==
  [i \in 1..Len(order) |->
     <<order[i],
       Num(10 * r + (CASE order[i] = "id" -> 1
                       [] order[i] = "orbital_period_days" -> 2
                       [] OTHER -> 3))>>]

CsvInputs ==
  UNION {{[r \in 1..n |-> CsvRow(r, orders[r])] : orders \in [1..n -> KeyOrders]} :
           n \in 0..MaxRows}

\* Array.prototype.join on one element: undefined and null give the empty
\* string, anything else its String().
StringOf(v) ==
  IF v.kind \in {"undefined", "null"} THEN ""
  ELSE IF v.kind = "NaN" THEN "NaN"
  ELSE ToString(v.n)

\* The first definition: nothing is done for an empty list; the header is
\* Object.keys(data[0]) and each row is read under the header's keys.
downloadCSV(data) ==
  IF Len(data) = 0 THEN [status |-> "returned", csv |-> << >>]
  ELSE LET headers == ObjectKeys(data[1])
       IN [status |-> "downloaded",
           csv |-> <<headers>> \o
                     [r \in 1..Len(data) |->
                        [i \in 1..Len(headers) |-> StringOf(Get(data[r], headers[i]))]]]

\* The second definition: Object.keys(data[0]) throws on an empty list; each
\* row is written as its own Object.values.
downloadCSV2(data) ==
  IF Len(data) = 0 THEN [status |-> "TypeError", csv |-> << >>]
  ELSE [status |-> "downloaded",
        csv |-> <<ObjectKeys(data[1])>> \o
                  [r \in 1..Len(data) |->
                     [i \in 1..Len(data[r]) |-> StringOf(data[r][i][2])]]]

\* handleExport: downloadCSV(dataset.rows, ...), with the definition the
\* build has.
handleExport(definition) ==
  /\ csvOutput = None
  /\ csvOutput' = Some(IF definition = 1 THEN downloadCSV(csvInput)
                                          ELSE downloadCSV2(csvInput))
  /\ UNCHANGED <<csvInput, clientVars, mockVars, pageVars, widgetVars>>

CsvInit ==
  /\ ClientInit /\ MockIdle /\ PageIdle /\ WidgetIdle
  /\ csvInput \in CsvInputs
  /\ csvOutput = None

CsvNext == \E definition \in {1, 2} : handleExport(definition)

CsvSpec == CsvInit /\ [][CsvNext]_vars

(***************************************************************************)
(* Properties.                                                              *)
(***************************************************************************)
Value(call) == call.value[1]
HasValue(call) == Len(call.value) = 1

\* The invocation's request failed (network error, non-2xx status or timeout).
TransportFailed(call) == Settled(call) /\ call.cause # "none"

OfflineToasts(call) ==
  Cardinality({i \in 1..Len(call.toasts) : call.toasts[i] = BackendOfflineToast})

RequestLogs(call) ==
  Cardinality({i \in 1..Len(call.log) : call.log[i].msg = "Making API request to:"})

FailureLogs(call) ==
  Cardinality({i \in 1..Len(call.log) :
                 call.log[i].msg = "API call failed, using mock data:"})

Substitute(op, args, seed) ==
  CASE op = "getHealth" -> mockHealth
    [] op = "getModels" -> mockModels
    [] op = "getMetrics" -> mockMetrics
    [] op = "getFeatures" -> mockFeatures
    [] op = "predict" -> mockPredictWithFeatures(args.features, seed)
    [] op = "getDataset" ->
         LET rows == SelectSeq(mockDataset.rows,
                               LAMBDA row : args.mission \in {"undefined", row.mission})
         IN [rows |-> rows, total |-> Len(rows)]
    [] op = "getShapSample" -> mockShapSample

C3_OneRequestPerInvocation ==
  /\ \A c \in Slots :
       LET call == calls[c]
       IN /\ call.requests <= 1
          /\ RequestLogs(call) = call.requests
          /\ call.pc # "idle" =>
               /\ call.requests = 1
               /\ call.log[1] = RequestLog(call.op)
               /\ call.log[1].method = (IF call.op \in {"predict", "predictCSV"}
                                          THEN "POST" ELSE "GET")
  /\ healthQuery.requests <= 1
  /\ healthQuery.failureCount = 0

C3_Witness ==
  /\ healthQuery.fetchStatus = "idle"
  /\ healthQuery.status = "success"
  /\ healthQuery.requests = 1
  /\ healthQuery.data = Some(mockHealth)

\* C4: a call to a wrapped operation that gets no response within the 10
\* seconds of the configured timeout fails by timeout, not earlier, and takes
\* the fallback path exactly once (one toast, one substitute returned); no
\* invocation stays pending forever.
C4_TimeoutFallsBackOnce ==
  \A c \in Slots :
    LET call == calls[c]
    IN /\ (Settled(call) /\ call.cause = "timeout") => call.elapsed >= 10000
       /\ (Settled(call) /\ call.cause = "timeout" /\ call.op \in WrappedOps) =>
            /\ call.pc = "resolved"
            /\ OfflineToasts(call) = 1
            /\ FailureLogs(call) = 1
            /\ HasValue(call)
       /\ (call.pc = "inflight" /\ call.elapsed >= 10000) =>
            ~ENABLED (\E kind \in BodyKinds : Respond(c, kind))

C4_NoInvocationHangs ==
  \A c \in Slots : (calls[c].pc = "inflight") ~> (calls[c].pc # "inflight")

C6_Cycle(dataset) ==
  /\ Len(dataset.rows) = 100
  /\ dataset.total = 100
  /\ \A i \in 0..99 :
       /\ dataset.rows[i + 1].mission = <<"kepler", "k2", "tess">>[(i % 3) + 1]
       /\ dataset.rows[i + 1].label =
            <<"confirmed", "candidate", "false_positive">>[(i % 3) + 1]

C6_MockDatasetCycle ==
  /\ C6_Cycle(mockDataset)
  /\ \A c \in Slots :
       (/\ TransportFailed(calls[c])
        /\ calls[c].op = "getDataset"
        /\ calls[c].args.mission = "undefined") => C6_Cycle(Value(calls[c]))

C6_Witness ==
  \E c \in Slots :
    /\ calls[c].op = "getDataset"
    /\ calls[c].args.mission = "undefined"
    /\ calls[c].cause = "network"
    /\ calls[c].pc = "resolved"
    /\ Len(Value(calls[c]).rows) = 100
    /\ Value(calls[c]).rows[100].mission = "kepler"
    /\ Value(calls[c]).rows[100].label = "confirmed"

\* The substitute classifier's input and result, and the conditions of the
\* heuristic on the input as given (a value that is missing or not a number
\* is above no threshold).
Out == mockOutput[1]
Called == Len(mockOutput) = 1
Above(key, n) == Get(mockInput, key).kind = "number" /\ Get(mockInput, key).n > n
Below(key, n) == Get(mockInput, key).kind = "number" /\ Get(mockInput, key).n < n

ConfirmedCondition ==
  /\ Above("transit_depth_ppm", 1000)
  /\ Above("planetary_radius_re", 5)
  /\ Above("orbital_period_days", 10)
  /\ Below("orbital_period_days", 1000)

CandidateCondition ==
  /\ ~ConfirmedCondition
  /\ Above("transit_depth_ppm", 500)
  /\ Above("planetary_radius_re", 3)

\* C7: the substitute classifier returns 'confirmed' with probabilities
\* {confirmed 0.75, candidate 0.20, false_positive 0.05} exactly when
\* depth > 1000 and radius > 0.5 and 10 < period < 1000, all bounds strict.
C7_ConfirmedExactlyWhen ==
  Called =>
    /\ (Out.prediction = "confirmed") <=> ConfirmedCondition
    /\ (Out.probabilities = [confirmed |-> 75, candidate |-> 20, false_positive |-> 5])
         <=> ConfirmedCondition

C7_Witness ==
  /\ mockInput = F(Num(365), Num(1200), Num(12))
  /\ Called
  /\ Out.prediction = "confirmed"

\* C8: it returns 'candidate' with probabilities {confirmed 0.30, candidate
\* 0.60, false_positive 0.10} exactly when the 'confirmed' condition does not
\* hold and depth > 500 and radius > 0.3.
C8_CandidateExactlyWhen ==
  Called =>
    /\ (Out.prediction = "candidate") <=> CandidateCondition
    /\ (Out.probabilities = [confirmed |-> 30, candidate |-> 60, false_positive |-> 10])
         <=> CandidateCondition

C8_Witness ==
  /\ mockInput = F(Num(50), Num(600), Num(4))
  /\ Called
  /\ Out.prediction = "candidate"

\* C9: it returns 'false_positive' with probabilities {confirmed 0.10,
\* candidate 0.20, false_positive 0.70} for every input that meets neither the
\* 'confirmed' nor the 'candidate' condition, a missing depth, radius or
\* period counting as 0.
C9_FalsePositiveOtherwise ==
  (Called /\ ~ConfirmedCondition /\ ~CandidateCondition) =>
    /\ Out.prediction = "false_positive"
    /\ Out.probabilities = [confirmed |-> 10, candidate |-> 20, false_positive |-> 70]
    /\ \A key \in {"orbital_period_days", "transit_depth_ppm", "planetary_radius_re"} :
         Get(mockInput, key) = Undefined =>
           Out.rationale[CASE key = "orbital_period_days" -> "period"
                           [] key = "transit_depth_ppm" -> "depth"
                           [] key = "planetary_radius_re" -> "radius"] = 0

C9_Witness ==
  /\ mockInput = << <<"transit_depth_ppm", Num(100)>>, <<"planetary_radius_re", Num(1)>> >>
  /\ Called
  /\ Out.prediction = "false_positive"

\* C10: the SHAP list of a substitute prediction has exactly one entry per key
\* of the request's features, in the same order, none extra and none missing,
\* and each entry's value is the input value of that feature.
C10_ShapMatchesInputKeys ==
  Called =>
    /\ Len(Out.shap) = Len(ObjectKeys(mockInput))
    /\ \A i \in 1..Len(mockInput) :
         /\ Out.shap[i].feature = ObjectKeys(mockInput)[i]
         /\ Out.shap[i].value = mockInput[i][2]
         /\ Out.shap[i].value = Get(mockInput, Out.shap[i].feature)

C10_Witness ==
  /\ Called
  /\ Len(mockInput) = 4
  /\ mockInput[2] = <<"feh", NaN>>
  /\ Out.shap[2].feature = "feh"
  /\ Out.shap[4].feature = "transit_depth_ppm"

\* C11: the substitute path never throws: whatever the request, a predict
\* body with a missing or empty features map or with non-numeric values for
\* period, depth or radius included, a wrapped operation whose transport
\* failed has returned its fallback value.
C11_SubstituteNeverThrows ==
  \A c \in Slots :
    (TransportFailed(calls[c]) /\ calls[c].op \in WrappedOps) =>
      calls[c].pc = "resolved" /\ HasValue(calls[c])

\* C12: after every successful classification on the classify page, the
\* browser's local storage holds under 'lastClassification' the record of
\* that classification: whenever the page shows a result, a record is stored
\* and the result it carries is the one shown.
C12_SuccessIsPersisted ==
  (route = "classify" /\ page.result # None) =>
    /\ localStorage # None
    /\ JSONParse(localStorage[1]).result = JsonResult(page.result[1])

\* C13: reading 'lastClassification' back and parsing it yields features and
\* a result identical to the ones handed to the write: what the explanations
\* page reads after handleViewExplanations equals the page's lastPrediction
\* and result at the click.
C13_RoundTripIdentical ==
  [][(\E timestamp \in Timestamps : handleViewExplanations(timestamp)) =>
       /\ reader'[1].features = page.lastPrediction
       /\ reader'[1].result = page.result[1]]_vars

\* The bounds of the form's fields as documented, in the model's units
\* (period in days, radius, duration and stellar radius in tenths, logg in
\* hundredths), and the fields of a form that are outside them.
C15_Bounds ==
  { [key |-> "orbital_period_days", low |-> 1, high |-> 10000],
    [key |-> "planetary_radius_re", low |-> 1, high |-> 500],
    [key |-> "transit_duration_hours", low |-> 1, high |-> 1000],
    [key |-> "transit_depth_ppm", low |-> 1, high |-> 100000],
    [key |-> "teff_k", low |-> 2000, high |-> 10000],
    [key |-> "rstar_rs", low |-> 1, high |-> 500],
    [key |-> "logg", low |-> 0, high |-> 600] }

C15_Rejected(values) ==
  {b.key : b \in {c \in C15_Bounds :
                    LET v == Get(values.fields, c.key)
                    IN v.kind # "number" \/ v.n < c.low \/ v.n > c.high}}

\* C15: a form submission with a value that is not a number, or outside the
\* bounds of the schema, shows field errors and does not call predict: no
\* submission starts, the page's state is untouched and no request is made.
C15_InvalidSubmissionStopsAtTheForm ==
  [][(C15_Rejected(form'.values) # {} /\ SubmitForm(form'.values)) =>
         /\ form'.errors = C15_Rejected(form'.values)
         /\ submits' = submits
         /\ page' = page
         /\ calls' = calls]_vars

\* An invalid value has been submitted: its field error is shown and nothing
\* is in flight.
C15_Witness ==
  /\ form.errors = {"planetary_radius_re"}
  /\ Get(form.values.fields, "planetary_radius_re") = Num(501)
  /\ \A i \in SubmitSlots : submits[i].pc = "idle"
  /\ page.lastPrediction = None

\* A submission in flight is one predict invocation that has made one
\* request; a step that starts one sets isLoading and leaves the others; a
\* step that settles one ends it and takes its outcome.
C16_Submitting ==
  \A i \in SubmitSlots :
    submits[i].pc = "inflight" =>
      /\ submits[i].op = "predict"
      /\ submits[i].requests = 1
      /\ submits[i].owner = "classify" =>
           page.lastPrediction # None /\ page.latest # 0

C16_SubmitStep ==
  (page'.lastPrediction # page.lastPrediction \/ page'.latest # page.latest
     \/ (page'.isLoading /\ ~page.isLoading)) /\ route' = "classify" =>
    /\ page'.isLoading
    /\ \E i \in SubmitSlots :
         /\ submits[i].pc # "inflight" /\ submits'[i].pc = "inflight"
         /\ \A j \in SubmitSlots \ {i} : submits'[j] = submits[j]

C16_SettleStep ==
  \A i \in SubmitSlots :
    (submits[i].pc = "inflight" /\ submits[i].owner = "classify"
       /\ submits'[i].pc # "inflight" /\ route' = "classify") =>
      /\ submits'[i] = IdleCall
      /\ ~page'.isLoading
      /\ \/ /\ page'.result # None
            /\ page'.resultFrom = i
            /\ page'.toasts[Len(page'.toasts)] = SuccessToast
         \/ /\ page'.result = page.result
            /\ page'.toasts[Len(page'.toasts)] = FailureToast

\* C16: the classify workflow is idle -> submitting -> {succeeded | failed}.
\* One submit sets isLoading and starts one invocation of predict; the
\* invocation makes one request and is not retried; when it settles the page
\* either takes the result or reports the error, and isLoading is false.
C16_ClassifyWorkflow ==
  [][C16_Submitting' /\ C16_SubmitStep /\ C16_SettleStep]_vars

\* A submission that succeeded: the result is on the page, nothing is in
\* flight and the page is no longer loading.
C16_Witness ==
  /\ route = "classify"
  /\ page.result # None /\ page.resultFrom = 1
  /\ ~page.isLoading
  /\ page.toasts = <<SuccessToast>>
  /\ \A i \in SubmitSlots : submits[i].pc = "idle"

C18_BaseUrlFromEnvironment ==
  \A c \in Slots :
    calls[c].requests > 0 =>
      calls[c].target[1] =
        (IF env \in {None, Some("")} THEN "http://localhost:8000" ELSE env[1])

\* A request made with the variable set, and (C18_WitnessEmpty) one made with
\* the variable set to the empty string.
C18_Witness ==
  /\ env = Some("https://api.exoai.example")
  /\ \E c \in Slots : calls[c].requests > 0 /\ calls[c].target[1] = env[1]

C18_WitnessEmpty ==
  /\ env = Some("")
  /\ \E c \in Slots : calls[c].requests > 0 /\ calls[c].target[1] = DEFAULT_BACKEND_URL

\* The two halves of the race: nothing is aborted, and the last response
\* wins.
C19_SupersededNotAborted ==
  \A i \in SubmitSlots :
    (submits[i].pc = "inflight" /\ page'.latest # page.latest
       /\ route' = "classify") =>
      submits'[i] = submits[i]

C19_StaleResponseOverwrites ==
  \A i \in SubmitSlots :
    (submits[i].pc = "inflight" /\ submits[i].owner = "classify"
       /\ submits'[i].pc # "inflight" /\ route' = "classify") =>
      /\ page'.resultFrom = i
      /\ page'.resultBefore = page.resultFrom
      /\ page'.result # None

C20_ResponseBodyReturnedUnchanged ==
  \A c \in Slots :
    (Settled(calls[c]) /\ calls[c].cause = "none") =>
      /\ calls[c].pc = "resolved"
      /\ calls[c].response # None
      /\ calls[c].value = calls[c].response
      /\ calls[c].toasts = << >>
      /\ FailureLogs(calls[c]) = 0

\* A malformed payload has reached the caller as the value of a resolved
\* predict.
C20_Witness ==
  \E c \in Slots :
    /\ calls[c].op = "predict"
    /\ calls[c].pc = "resolved"
    /\ calls[c].cause = "none"
    /\ calls[c].value = Some(ServerBody("predict", "malformed"))
    /\ ~HasDeclaredKeys("predict", Value(calls[c]))

\* C14: downloadCSV on a non-empty list of rows emits a header row equal to
\* the keys of the first row, and every row's values under those keys, in
\* that order, whatever the row's own key order or key set (a key the row
\* lacks gives an empty cell).
C14_HeaderAndColumnsOfFirstRow ==
  (csvOutput # None /\ Len(csvInput) > 0) =>
    LET header == ObjectKeys(csvInput[1])
        csv == csvOutput[1].csv
    IN /\ csvOutput[1].status = "downloaded"
       /\ Len(csv) = Len(csvInput) + 1
       /\ csv[1] = header
       /\ \A r \in 1..Len(csvInput) :
            csv[r + 1] = [i \in 1..Len(header) |->
                            StringOf(Get(csvInput[r], header[i]))]

\* C21: every substitute prediction has a class among confirmed, candidate
\* and false_positive, probabilities for exactly those three classes that sum
\* to 1 (100 hundredths), and its class is the one with the highest
\* probability.
C21_SubstituteIsADistribution ==
  Called =>
    /\ Out.prediction \in {"confirmed", "candidate", "false_positive"}
    /\ DOMAIN Out.probabilities = {"confirmed", "candidate", "false_positive"}
    /\ \A class \in DOMAIN Out.probabilities : Out.probabilities[class] \in 0..100
    /\ Out.probabilities.confirmed + Out.probabilities.candidate
         + Out.probabilities.false_positive = 100
    /\ \A class \in DOMAIN Out.probabilities \ {Out.prediction} :
         Out.probabilities[class] < Out.probabilities[Out.prediction]

C21_Witness ==
  /\ Called
  /\ Out.prediction = "candidate"
  /\ Out.probabilities.candidate = 60
  /\ Get(mockInput, "orbital_period_days") = NaN

\* C22: every predict request the classify page issues after a valid form
\* submission carries a number for each of the 8 features of its body.
C22_RequestCarriesEightNumbers ==
  \A i \in SubmitSlots :
    submits[i].pc = "inflight" =>
      \A key \in {"orbital_period_days", "transit_duration_hours",
                  "planetary_radius_re", "transit_depth_ppm", "teff_k",
                  "rstar_rs", "logg", "feh"} :
        Get(submits[i].args.features, key).kind = "number"

\* C23: when a classification is stored under 'lastClassification', then once
\* the visualize page has mounted and loaded it, and until a slider is moved,
\* the scene's orbital period, planetary radius and transit depth are the
\* stored features' values.
C23_SceneShowsStoredFeatures ==
  (/\ route = "visualize"
   /\ reader # None
   /\ reader[1].features # None
   /\ ~canvas.moved) =>
    LET fields == reader[1].features[1].fields
    IN /\ canvas.customPeriod = 100 * Get(fields, "orbital_period_days").n
       /\ canvas.customRadius = Get(fields, "planetary_radius_re").n
       /\ canvas.customDepth = Get(fields, "transit_depth_ppm").n

\* C27: when the value stored under 'lastClassification' is not well formed
\* (text that is not JSON, or JSON without result or without result.shap), the
\* explanations and visualize pages behave as with nothing stored: their
\* state stays null and rendering does not fail.
C27_WellFormed(text) ==
  /\ text.format = "json"
  /\ "shap" \in DOMAIN JSONParse(text).result

C27_MalformedIsAsNothingStored ==
  (/\ route \in {"explanations", "visualize"}
   /\ localStorage # None
   /\ ~C27_WellFormed(localStorage[1])) =>
    /\ reader = None
    /\ ~RenderFails

\* C24: when the transport call of getDataset fails, the value returned holds
\* exactly the mock rows of the requested mission (all 100 when no mission is
\* given) and a total equal to the number of those rows, whatever page, limit
\* and search were passed.
C24_MissionRows(mission) ==
  IF mission = "undefined"
    THEN mockDataset.rows
    ELSE SelectSeq(mockDataset.rows, LAMBDA row : row.mission = mission)

C24_FallbackIgnoresPaging ==
  \A c \in Slots :
    (TransportFailed(calls[c]) /\ calls[c].op = "getDataset") =>
      /\ Value(calls[c]).rows = C24_MissionRows(calls[c].args.mission)
      /\ Value(calls[c]).total = Len(Value(calls[c]).rows)
      /\ calls[c].args.mission = "undefined" => Len(Value(calls[c]).rows) = 100
      /\ DOMAIN Value(calls[c]) = {"rows", "total"}

C24_Witness ==
  \E c \in Slots :
    /\ TransportFailed(calls[c])
    /\ calls[c].op = "getDataset"
    /\ calls[c].args.mission = "k2"
    /\ calls[c].args.page = Num(3)
    /\ calls[c].args.limit = Num(10)
    /\ calls[c].args.search = "mock-7"
    /\ Len(Value(calls[c]).rows) = 33
    /\ Value(calls[c]).total = 33

\* C25: the record written under 'lastClassification' is internally
\* consistent: its result is the prediction computed from its features, that
\* is, the result on the page came from the submission whose data is
\* lastPrediction, for every interleaving of submissions, completions and
\* clicks on 'View Full Explanations'.
C25_StoredRecordIsConsistent ==
  [][localStorage' # localStorage =>
       /\ page.latest # 0
       /\ page.resultFrom = page.latest]_vars

\* C30: a submission of the classify page whose transport call fails still
\* ends as a success: the result is set to the substitute prediction for the
\* submitted features and the success toast is raised after the 'Backend
\* offline' toast; the failure toast is raised only when predict rejects.
C30_Failing(i) ==
  /\ route = "classify"
  /\ submits[i].pc = "inflight"
  /\ submits[i].owner = "classify"
  /\ PredictFails(i, "network", rnd)

C30_FailedSubmissionSucceeds ==
  [][/\ \A i \in SubmitSlots :
          C30_Failing(i) =>
            /\ page'.result =
                 Some(mockPredictWithFeatures(submits[i].args.features, rnd))
            /\ page'.toasts = <<BackendOfflineToast, SuccessToast>>
            /\ ~page'.isLoading
     /\ (page'.toasts # page.toasts
           /\ \E k \in DOMAIN page'.toasts : page'.toasts[k] = FailureToast) =>
          \E i \in SubmitSlots :
            /\ submits[i].pc = "inflight"
            /\ submits'[i].pc = "idle"
            /\ FallbackThrows("predict", submits[i].args)]_vars

C30_Witness ==
  /\ route = "classify"
  /\ page.lastPrediction # None
  /\ page.result =
       Some(mockPredictWithFeatures(
              PredictBodyOf(page.lastPrediction[1]).features, rnd))
  /\ page.toasts = <<BackendOfflineToast, SuccessToast>>
  /\ ~page.isLoading

\* C29: once the health query has settled, the topbar's status badge shows
\* 'Online', whether the backend answered or getHealth fell back to the mock
\* health; 'Offline' is shown only while no health data has been obtained.
C29_BadgeOnlineOnceSettled ==
  /\ healthQuery.status # "pending" => TopbarBadge(healthQuery) = "Online"
  /\ TopbarBadge(healthQuery) \in {"Online", "Offline"}
  /\ TopbarBadge(healthQuery) = "Offline" =>
       healthQuery.data = None /\ healthQuery.status = "pending"

C29_Witness ==
  /\ healthQuery.status = "success"
  /\ healthQuery.fetchStatus = "idle"
  /\ healthQuery.data = Some(mockHealth)
  /\ TopbarBadge(healthQuery) = "Online"

\* C26: in the dataset table, the classification result shown in a row's
\* details dialog was computed from that row's features: after row A has been
\* classified, the dialog of another row B never shows A's result.
C26_DialogShowsOwnResult ==
  \A k \in TableRows : DialogShowsResult(k) => table.resultOf = k

\* C28: when predictCSV fails it rethrows, without a toast and without a
\* substitute, and CSVUpload ends with isProcessing false, processedData and
\* downloadUrl still null, the uploaded file retained and one error toast
\* raised, so that 'Process CSV' is offered again and no download is.
C28_Failing(error) ==
  /\ upload.call.pc = "inflight"
  /\ UploadFails(error)

C28_FailedUploadCanBeRetried ==
  [][\A error \in FailureKinds :
       C28_Failing(error) =>
         /\ ~upload'.isProcessing
         /\ upload'.processedData = None
         /\ upload'.downloadUrl = None
         /\ upload'.uploadedFile = upload.uploadedFile
         /\ upload'.toasts = <<ProcessFailedToast>>
         /\ upload'.call.pc = "idle"
         /\ ~DownloadOffered(upload')
         /\ upload.uploadedFile # None => ProcessOffered(upload')]_vars

C28_Witness ==
  /\ upload.uploadedFile = Some([name |-> "planets.csv", type |-> "text/csv"])
  /\ ~upload.isProcessing
  /\ upload.processedData = None
  /\ upload.downloadUrl = None
  /\ upload.toasts = <<ProcessFailedToast>>
  /\ ProcessOffered(upload)

====
